---- MODULE Spec2Model ----
(***************************************************************************)
(* Model of the code-converter server: the Express routes of               *)
(* server/routes/convert.js, the GeminiService wrapper, and the rule-based *)
(* engine (CodeTransformer, CodeAnalyzer) the routes call.                 *)
(*                                                                         *)
(* Source text is a sequence of lexemes (tokens); a language tag is a      *)
(* string, "" standing for a missing/empty field.                          *)
(***************************************************************************)
EXTENDS Naturals, Sequences, FiniteSets, TLC

(***************************************************************************)
(* Bounds of the model.                                                    *)
(***************************************************************************)
\* longest source text drawn for the analyzer / fix engine
MaxCodeLen == 3
\* number of requests the concurrent specification runs
NReq == 2

(***************************************************************************)
(* Values.                                                                 *)
(***************************************************************************)
\* client/pages/index.tsx: const languages = [...]
Languages == {"Python", "Java", "JavaScript", "C#", "C++", "Go"}

\* JavaScript's undefined, as the value of a text field that is not there
Undefined == <<"#undefined">>

\* JavaScript falsiness of a string field (a tag) and of a text field
NoTag(tag) == tag = ""
NoText(code) == code = <<>> \/ code = Undefined

\* One line of an analysis list: a template (tag) and what it interpolates.
Line(tag, n, a, b) == [tag |-> tag, n |-> n, a |-> a, b |-> b, text |-> <<>>]
\* a line that is a free text (a model's answer)
TextLine(text) == [tag |-> "text", n |-> 0, a |-> "", b |-> "", text |-> text]
\* a prefix and a finding f, as one line
FindingLine(tag, f) == Line(tag, f.line, f.kind, f.tok)

(***************************************************************************)
(* Text helpers.                                                           *)
(***************************************************************************)
RECURSIVE CountTok(_, _)
CountTok(code, toks) ==
  IF code = <<>> THEN 0
  ELSE (IF Head(code) \in toks THEN 1 ELSE 0) + CountTok(Tail(code), toks)

\* code.split('\n')
RECURSIVE SplitLines(_)
SplitLines(code) ==
  IF \A i \in 1..Len(code) : code[i] # "\n" THEN <<code>>
  ELSE LET k == CHOOSE i \in 1..Len(code) :
                  code[i] = "\n" /\ \A j \in 1..(i-1) : code[j] # "\n"
       IN  <<SubSeq(code, 1, k-1)>> \o SplitLines(SubSeq(code, k+1, Len(code)))

\* 1-based line of position i
LineOf(code, i) == 1 + CountTok(SubSeq(code, 1, i-1), {"\n"})

\* position just past the last token of line ln (where an insertion at the
\* end of that line goes)
LineEnd(code, ln) ==
  LET ends == {i \in 1..Len(code) : code[i] = "\n" /\ LineOf(code, i) = ln}
  IN  IF ends = {} THEN Len(code) + 1 ELSE CHOOSE i \in ends : TRUE

InsertAt(code, pos, tok) ==
  SubSeq(code, 1, pos-1) \o <<tok>> \o SubSeq(code, pos, Len(code))

InsertAtLineEnd(code, ln, tok) == InsertAt(code, LineEnd(code, ln), tok)

(***************************************************************************)
(* CodeAnalyzer.analyzeSyntax: structural checks.  A finding is a record   *)
(* [kind, tok, line].                                                      *)
(***************************************************************************)
Openers == {"(", "[", "{"}
Closers == {")", "]", "}"}
Closer(tok) == CASE tok = "(" -> ")" [] tok = "[" -> "]" [] OTHER -> "}"

Finding(kind, tok, ln) == [kind |-> kind, tok |-> tok, line |-> ln]

\* Stack-based matching from position i on.  stack holds the positions of
\* the openers still open (innermost last); closer is the position of the
\* first unmatched closer, or 0.
RECURSIVE BalanceScan(_, _, _, _)
BalanceScan(code, i, stack, closer) ==
  IF i > Len(code) THEN [stack |-> stack, closer |-> closer]
  ELSE LET t == code[i] IN
       IF t \in Openers THEN BalanceScan(code, i+1, Append(stack, i), closer)
       ELSE IF t \in Closers THEN
              IF stack # <<>> /\ Closer(code[stack[Len(stack)]]) = t
              THEN BalanceScan(code, i+1, SubSeq(stack, 1, Len(stack)-1), closer)
              ELSE BalanceScan(code, i+1, stack, IF closer = 0 THEN i ELSE closer)
       ELSE BalanceScan(code, i+1, stack, closer)

\* The first unmatched closer, then every opener still open at the end of
\* the input, innermost first.
BalanceErrors(code) ==
  LET r == BalanceScan(code, 1, <<>>, 0)
      n == Len(r.stack)
  IN  (IF r.closer = 0 THEN <<>>
       ELSE <<Finding("UnmatchedCloser", code[r.closer], LineOf(code, r.closer))>>)
      \o [k \in 1..n |->
            Finding("UnmatchedOpener", code[r.stack[n+1-k]],
                    LineOf(code, r.stack[n+1-k]))]

\* the elements of a sequence of optional findings (<<>> or <<f>>), in order
RECURSIVE Flatten(_)
Flatten(ss) == IF ss = <<>> THEN <<>> ELSE Head(ss) \o Flatten(Tail(ss))

\* Quote parity per line: a line with an odd number of quotes holds an
\* unterminated string literal.
StringErrors(code) ==
  LET ls == SplitLines(code) IN
  Flatten([k \in 1..Len(ls) |->
             IF CountTok(ls[k], {"'"}) % 2 = 1
             THEN <<Finding("UnterminatedString", "'", k)>> ELSE <<>>])

\* languages whose statements end in a terminator
TerminatorLanguages == {"Java", "C#", "C++", "JavaScript"}

NeedsTerminator(ln) ==
  /\ ln # <<>>
  /\ ln[Len(ln)] \notin {";", "{", "}"}
  /\ ln[1] # "//"

TerminatorErrors(code, language) ==
  IF language \notin TerminatorLanguages THEN <<>>
  ELSE LET ls == SplitLines(code) IN
       Flatten([k \in 1..Len(ls) |->
                  IF NeedsTerminator(ls[k])
                  THEN <<Finding("MissingTerminator", ";", k)>> ELSE <<>>])

\* languages whose blocks are delimited by indentation
IndentLanguages == {"Python"}

\* A block header (a line ending in ":") not followed by a deeper-indented
\* line: a warning.
IndentWarnings(code, language) ==
  IF language \notin IndentLanguages THEN <<>>
  ELSE LET ls == SplitLines(code) IN
       Flatten([k \in 1..Len(ls) |->
                  IF /\ ls[k] # <<>>
                     /\ ls[k][Len(ls[k])] = ":"
                     /\ \/ k = Len(ls)
                        \/ ls[k+1] = <<>>
                        \/ ls[k+1][1] # "  "
                  THEN <<Finding("BlockNotIndented", ":", k)>> ELSE <<>>])

\* a line longer than this many lexemes draws a suggestion
LongLine == 2

StyleSuggestions(code) ==
  LET ls == SplitLines(code) IN
  Flatten([k \in 1..Len(ls) |->
             IF Len(ls[k]) > LongLine
             THEN <<Finding("LongLine", "", k)>> ELSE <<>>])

analyzeSyntax(code, language) ==
  [errors      |-> BalanceErrors(code) \o StringErrors(code)
                     \o TerminatorErrors(code, language),
   warnings    |-> IndentWarnings(code, language),
   suggestions |-> StyleSuggestions(code)]

(***************************************************************************)
(* CodeAnalyzer.fixSyntaxErrors: one corrective template per Error finding *)
(* kind; a finding without a template is left unresolved.                  *)
(***************************************************************************)
HasTemplate(f) ==
  f.kind \in {"UnmatchedOpener", "UnterminatedString", "MissingTerminator"}

ApplyTemplate(code, f) ==
  CASE f.kind = "UnmatchedOpener"    -> code \o <<Closer(f.tok)>>
    [] f.kind = "UnterminatedString" -> InsertAtLineEnd(code, f.line, "'")
    [] f.kind = "MissingTerminator"  -> InsertAtLineEnd(code, f.line, ";")
    [] OTHER                         -> code

\* the findings the fix engine consumes
FixableFindings(analysis) == analysis.errors

RECURSIVE ApplyFixes(_, _, _)
ApplyFixes(code, findings, fixes) ==
  IF findings = <<>> THEN [code |-> code, fixes |-> fixes]
  ELSE LET f == Head(findings) IN
       IF HasTemplate(f)
       THEN ApplyFixes(ApplyTemplate(code, f), Tail(findings), Append(fixes, f))
       ELSE ApplyFixes(code, Tail(findings), fixes)

fixSyntaxErrors(code, language) ==
  ApplyFixes(code, FixableFindings(analyzeSyntax(code, language)), <<>>)


(***************************************************************************)
(* CodeAnalyzer.generateQualityMetrics: heuristic structural metrics.      *)
(***************************************************************************)
CommentToken(language) == IF language = "Python" THEN "#" ELSE "//"

FunctionKeyword(language) ==
  CASE language = "Python"     -> "def"
    [] language = "JavaScript" -> "function"
    [] language = "Go"         -> "func"
    [] OTHER                   -> "void"

BranchKeywords == {"if", "for", "while", "&&", "||"}

IsCodeLine(ln, language) == ln # <<>> /\ ln[1] # CommentToken(language)

RECURSIVE CountLines(_, _)
CountLines(ls, language) ==
  IF ls = <<>> THEN 0
  ELSE (IF IsCodeLine(Head(ls), language) THEN 1 ELSE 0)
       + CountLines(Tail(ls), language)

\* deepest nesting of brackets
RECURSIVE MaxDepth(_, _, _)
MaxDepth(code, depth, best) ==
  IF code = <<>> THEN best
  ELSE IF Head(code) \in Openers
       THEN MaxDepth(Tail(code), depth + 1, IF depth + 1 > best THEN depth + 1 ELSE best)
       ELSE IF Head(code) \in Closers /\ depth > 0
            THEN MaxDepth(Tail(code), depth - 1, best)
            ELSE MaxDepth(Tail(code), depth, best)

\* thresholds of the readability score
lineLengthThreshold == 2
nestingThreshold == 1

ReadabilityScore(code, language) ==
  LET ls == SplitLines(code) IN
    (IF \A k \in 1..Len(ls) : Len(ls[k]) <= lineLengthThreshold THEN 1 ELSE 0)
  + (IF CountTok(code, {CommentToken(language)}) > 0 THEN 1 ELSE 0)
  + (IF MaxDepth(code, 0, 0) <= nestingThreshold THEN 1 ELSE 0)

ReadabilityLabel(score) ==
  CASE score = 0 -> "Poor" [] score = 1 -> "Fair" [] score = 2 -> "Good"
    [] OTHER -> "Excellent"

generateQualityMetrics(code, language) ==
  [linesOfCode |-> CountLines(SplitLines(code), language),
   functions   |-> CountTok(code, {FunctionKeyword(language)}),
   classes     |-> CountTok(code, {"class"}),
   complexity  |-> 1 + CountTok(code, BranchKeywords),
   readability |-> ReadabilityLabel(ReadabilityScore(code, language))]

\* the qualityMetrics field of a response that carries none
NoMetrics ==
  [linesOfCode |-> 0, functions |-> 0, classes |-> 0, complexity |-> 0,
   readability |-> "undefined"]

(***************************************************************************)
(* CodeTransformer.convertCode: Extractor -> IR -> Renderer.               *)
(***************************************************************************)
PrintLexeme(language) ==
  CASE language = "Python"     -> "print"
    [] language = "Java"       -> "System.out.println"
    [] language = "JavaScript" -> "console.log"
    [] language = "C#"         -> "Console.WriteLine"
    [] language = "C++"        -> "std::cout"
    [] OTHER                   -> "fmt.Println"

IRNode(kind, raw) == [kind |-> kind, raw |-> raw]

\* the first pattern of the source language that matches, else Unknown
ExtractNode(tok, sourceLang) ==
  CASE tok = FunctionKeyword(sourceLang) -> IRNode("FunctionDecl", tok)
    [] tok = PrintLexeme(sourceLang)     -> IRNode("Print", tok)
    [] tok = "return"                    -> IRNode("Return", tok)
    [] tok = CommentToken(sourceLang)    -> IRNode("Comment", tok)
    [] OTHER                             -> IRNode("Unknown", tok)

extract(sourceText, sourceLang) ==
  [k \in 1..Len(sourceText) |-> ExtractNode(sourceText[k], sourceLang)]

RenderNode(node, targetLang) ==
  CASE node.kind = "FunctionDecl" -> FunctionKeyword(targetLang)
    [] node.kind = "Print"        -> PrintLexeme(targetLang)
    [] node.kind = "Return"       -> "return"
    [] node.kind = "Comment"      -> CommentToken(targetLang)
    [] OTHER                      -> node.raw

render(ir, targetLang) == [k \in 1..Len(ir) |-> RenderNode(ir[k], targetLang)]

CountKind(ir, kinds) == Cardinality({k \in 1..Len(ir) : ir[k].kind \in kinds})

convertCode(sourceText, sourceLang, targetLang) ==
  IF sourceLang \notin Languages \/ targetLang \notin Languages
  THEN [success |-> FALSE, outputCode |-> <<>>, analysis |-> <<>>,
        error |-> "UnsupportedLanguage"]
  ELSE IF NoText(sourceText)
  THEN [success |-> FALSE, outputCode |-> <<>>, analysis |-> <<>>,
        error |-> "InvalidInput"]
  ELSE LET ir == extract(sourceText, sourceLang) IN
       [success    |-> TRUE,
        outputCode |-> render(ir, targetLang),
        analysis   |-> << Line("translated",
                               CountKind(ir, {"FunctionDecl", "Print", "Return", "Comment"}),
                               sourceLang, targetLang),
                          Line("unknown", CountKind(ir, {"Unknown"}),
                               sourceLang, targetLang) >>,
        error      |-> "null"]

(***************************************************************************)
(* GeminiService (server/lib/geminiService.js).                            *)
(***************************************************************************)
\* constructor + initializeClient: both fields are set iff the key is there
NewGeminiService(apiKey) ==
  IF apiKey THEN [genAI |-> "client", model |-> "gemini-1.5-flash"]
  ELSE [genAI |-> "null", model |-> "null"]

\* the fields compared against undefined, which null is not
isConfiguredNotUndefined(svc) ==
  svc.genAI # "undefined" /\ svc.model # "undefined"

\* lines 219-221
isConfigured(svc) == svc.genAI # "null" /\ svc.model # "null"

Whitespace == {"\n", "  "}
\* lexemes made of \w characters only
WordTokens == {"js", "x", "print", "def", "return"}

RECURSIVE TrimLeft(_)
TrimLeft(text) ==
  IF text # <<>> /\ Head(text) \in Whitespace THEN TrimLeft(Tail(text)) ELSE text

RECURSIVE TrimRight(_)
TrimRight(text) ==
  IF text # <<>> /\ text[Len(text)] \in Whitespace
  THEN TrimRight(SubSeq(text, 1, Len(text) - 1)) ELSE text

\* String.prototype.trim
Trim(text) == TrimRight(TrimLeft(text))

RECURSIVE DropWord(_)
DropWord(text) ==
  IF text # <<>> /\ Head(text) \in WordTokens THEN DropWord(Tail(text)) ELSE text

\* .replace(/~~~[\w]*\n?/g, '') with ~~~ standing for the three-backtick
\* fence: each fence, the word characters that follow it and one newline
RECURSIVE StripFences(_)
StripFences(text) ==
  IF text = <<>> THEN <<>>
  ELSE IF Head(text) = "~~~"
       THEN LET rest == DropWord(Tail(text)) IN
            StripFences(IF rest # <<>> /\ Head(rest) = "\n" THEN Tail(rest) ELSE rest)
       ELSE <<Head(text)>> \o StripFences(Tail(text))

\* convertedCode.replace(...).replace(/~~~/g, '').trim()
CleanCode(text) == Trim(StripFences(Trim(text)))

NotConfiguredMessage == "Gemini API key not configured"

\* What a call yields: it threw (a rejected promise) or returned a value.
Threw(message) == [threw |-> TRUE, message |-> message, value |-> [success |-> FALSE]]
Returned(value) == [threw |-> FALSE, message |-> "", value |-> value]

\* outcome: what model.generateContent did, [ok, text, message]
convertCodeWithAI(svc, outcome, sourceLang, targetLang) ==
  IF svc.genAI = "null" \/ svc.model = "null" THEN Threw(NotConfiguredMessage)
  ELSE IF outcome.ok
  THEN Returned([code     |-> CleanCode(outcome.text),
                 success  |-> TRUE,
                 error    |-> "null",
                 analysis |-> << Line("AI-powered conversion", 0, sourceLang, targetLang),
                                 Line("Code analyzed and transformed using Gemini 1.5 Flash", 0, "", ""),
                                 Line("Functionality preserved during conversion", 0, "", "") >>])
  ELSE Returned([code     |-> <<>>,
                 success  |-> FALSE,
                 error    |-> outcome.message,
                 analysis |-> << Line("AI conversion failed", 0, outcome.message, "") >>])

fixCodeWithAI(svc, outcome, language) ==
  IF svc.genAI = "null" \/ svc.model = "null" THEN Threw(NotConfiguredMessage)
  ELSE IF outcome.ok
  THEN Returned([code     |-> CleanCode(outcome.text),
                 success  |-> TRUE,
                 error    |-> "null",
                 analysis |-> << Line("AI-powered code analysis and fixing", 0, "", ""),
                                 Line("Syntax errors identified and corrected", 0, "", ""),
                                 Line("Code quality improved using Gemini 1.5 Flash", 0, "", ""),
                                 Line("Best practices applied", 0, "", "") >>])
  ELSE Returned([code     |-> <<>>,
                 success  |-> FALSE,
                 error    |-> outcome.message,
                 analysis |-> << Line("AI code fixing failed", 0, outcome.message, "") >>])

\* analyzeCodeQuality, generateCodeExplanation and suggestImprovements share
\* one shape: the trimmed answer under the key named by field
TextWithAI(svc, outcome, field) ==
  IF svc.genAI = "null" \/ svc.model = "null" THEN Threw(NotConfiguredMessage)
  ELSE IF outcome.ok
  THEN Returned([text |-> Trim(outcome.text), field |-> field,
                 success |-> TRUE, error |-> "null"])
  ELSE Returned([text |-> <<>>, field |-> field,
                 success |-> FALSE, error |-> outcome.message])

analyzeCodeQuality(svc, outcome) == TextWithAI(svc, outcome, "analysis")
generateCodeExplanation(svc, outcome) == TextWithAI(svc, outcome, "explanation")
suggestImprovements(svc, outcome) == TextWithAI(svc, outcome, "suggestions")


(***************************************************************************)
(* State of the server (server/routes/convert.js).                         *)
(***************************************************************************)
VARIABLES
  geminiService,       \* the module-level GeminiService: [genAI, model]
  supabaseConfigured,  \* isSupabaseConfigured()
  nonText,             \* what the analyzer does with a non-text argument:
                       \* "throws" (a TypeError) or "empty" (reads it as '')
  engineFaults,        \* whether a transformer / analyzer call may raise
  history,             \* the rows of the history table
  req,                 \* per request: the body it was posted with
  pc,                  \* per request: where its handler stands
  local,               \* per handler: its variables that live across an await
  sent,                \* per request: the responses written, in order
  calls,               \* per request: the calls its handler has made to the
                       \* transformer, the analyzer, GeminiService and the
                       \* history store, in order
  page,                \* the client page: the state hooks of Home
  inFlight,            \* the handleConvert calls waiting at their await
  started,             \* how many handleConvert calls were started
  finished             \* the handleConvert calls that ran to their end, in
                       \* the order they ended

vars == <<geminiService, supabaseConfigured, nonText, engineFaults, history,
          req, pc, local, sent, calls, page, inFlight, started, finished>>

\* the state of the client page, which no handler of the server touches
clientVars == <<page, inFlight, started, finished>>

\* index.tsx line 9
languages == {"Python", "Java", "JavaScript", "C#", "C++", "Go"}

\* index.tsx lines 12-19: the useState initial values
InitialPage ==
  [sourceLang |-> "Python", targetLang |-> "JavaScript", sourceCode |-> <<>>,
   convertedCode |-> "", analysis |-> "", explanation |-> "",
   suggestions |-> "", loading |-> FALSE]

Requests == 1..NReq

\* a body field that was not sent
NoBody ==
  [route |-> "", sourceLang |-> "", targetLang |-> "", language |-> "",
   inputCode |-> <<>>, useAI |-> FALSE]

ConvertBody(sourceLang, targetLang, inputCode, useAI) ==
  [NoBody EXCEPT !.route = "convert", !.sourceLang = sourceLang,
                 !.targetLang = targetLang, !.inputCode = inputCode,
                 !.useAI = useAI]

LanguageBody(route, language, inputCode, useAI) ==
  [NoBody EXCEPT !.route = route, !.language = language,
                 !.inputCode = inputCode, !.useAI = useAI]

NoRow ==
  [sourceLang |-> "", targetLang |-> "", inputCode |-> <<>>,
   outputCode |-> <<>>, analysisSummary |-> <<>>, useAI |-> FALSE]

NoLocal ==
  [path |-> "", result |-> [success |-> FALSE], analysis |-> <<>>,
   metrics |-> NoMetrics, row |-> NoRow, savedId |-> 0]

\* res.json(...): the keys a response may carry; a key that is absent (or
\* undefined, which JSON drops) reads as below
NoResponse ==
  [status |-> 200, error |-> "undefined", outputCode |-> Undefined,
   analysis |-> <<>>, id |-> 0, useAI |-> FALSE, qualityMetrics |-> NoMetrics,
   explanation |-> Undefined, suggestions |-> Undefined]

\* res.status(status).json({ error })
ErrorResponse(status, message) ==
  [NoResponse EXCEPT !.status = status, !.error = message]

RequiredMessage(route) ==
  IF route = "convert" THEN "sourceLang, targetLang, inputCode required"
  ELSE "language, inputCode required"

\* result.<name> of a JavaScript object
Field(obj, name) == IF name \in DOMAIN obj THEN obj[name] ELSE Undefined

(***************************************************************************)
(* The engine as the routes call it: a call returns or raises.             *)
(***************************************************************************)
\* the exception an analyzer call on (code, language) raises, "" if none
AnalyzerError(code, language) ==
  IF code = Undefined /\ nonText = "throws" THEN "TypeError"
  ELSE IF language \notin Languages THEN "UnsupportedLanguage"
  ELSE ""

\* a non-text argument the analyzer does not reject reads as the empty text
AsText(code) == IF code = Undefined THEN <<>> ELSE code

\* the faults an engine call may be given in a run
Faults == IF engineFaults THEN BOOLEAN ELSE {FALSE}

(***************************************************************************)
(* saveHistory (lines 16-40).                                              *)
(***************************************************************************)
HistoryRow(q, outputCode, analysisSummary) ==
  [sourceLang |-> IF q.route = "convert" THEN q.sourceLang ELSE q.language,
   targetLang |-> IF q.route = "convert" THEN q.targetLang ELSE "null",
   inputCode |-> q.inputCode, outputCode |-> outputCode,
   analysisSummary |-> analysisSummary, useAI |-> q.useAI]

\* lines 17-20: without Supabase saveHistory returns null at once; with it
\* the handler waits for the insert
saveHistoryNext == IF supabaseConfigured THEN "awaitInsert" ELSE "awaitSave"

\* lines 22-39: insertOk tells whether the insert went through.  Yields the
\* table after the call and the id of the saved row (0 when saveHistory
\* returns null).
saveHistory(table, row, insertOk) ==
  IF insertOk
  THEN [table |-> Append(table, [row |-> row, id |-> Len(table) + 1]),
        id |-> Len(table) + 1]
  ELSE [table |-> table, id |-> 0]

(***************************************************************************)
(* What model.generateContent may do.                                      *)
(***************************************************************************)
GeminiTexts ==
  { <<"~~~", "js", "\n", "console.log", "~~~">>, <<"x", "\n">> }

GeminiOutcomes ==
  { [ok |-> FALSE, text |-> <<>>, message |-> "fetch failed"] }
  \cup { [ok |-> TRUE, text |-> t, message |-> ""] : t \in GeminiTexts }

(***************************************************************************)
(* Pieces the handlers share.                                              *)
(***************************************************************************)
\* the path test without the configuration check
UseGeminiUnchecked(useAI) == useAI

\* useAI && geminiService.isConfigured()
UseGemini(useAI) == useAI /\ isConfigured(geminiService)

\* the answer for a failed result written without the return
NoReturnAfterFailure == FALSE

\* return res.status(500).json(...): the handler stops after answering for
\* a failed result
ReturnsAfterFailure == TRUE

\* one module-level variable in place of the handlers' own
SharedSlot(r) == 1

\* where the handler of request r keeps its local variables (let result)
ResultSlot(r) == r

QualityLines(m) ==
  << Line("Code quality", 0, m.readability, ""),
     Line("Lines of code", m.linesOfCode, "", ""),
     Line("Functions", m.functions, "", ""),
     Line("Classes", m.classes, "", "") >>

FindingLines(tag, findings) ==
  [k \in 1..Len(findings) |-> FindingLine(tag, findings[k])]

\* a handler's outcome: the responses it writes now, where it goes next and
\* what it keeps
Outcome(sends, next, keep) ==
  [sends |-> sends, next |-> next, keep |-> keep, calls |-> <<>>]

\* the outcome of a stretch of handler code that first makes the calls made
Calling(made, out) == [out EXCEPT !.calls = made \o out.calls]

Finish(r, q, out) ==
  /\ req' = [req EXCEPT ![r] = q]
  /\ sent' = [sent EXCEPT ![r] = sent[r] \o out.sends]
  /\ pc' = [pc EXCEPT ![r] = out.next]
  /\ local' = [local EXCEPT ![ResultSlot(r)] = out.keep]
  /\ calls' = [calls EXCEPT ![r] = calls[r] \o out.calls]
  /\ UNCHANGED clientVars


(***************************************************************************)
(* POST /convert (lines 43-102).                                           *)
(***************************************************************************)
\* the conversion result read under the key GeminiService uses
ConvertOutputFieldCode == "code"

\* the field of the conversion result the handler reads the converted code
\* from (result.outputCode, lines 66, 67, 85, 91)
ConvertOutputField == "outputCode"

\* the test of line 46 without its inputCode operand
ConvertInvalidTagsOnly(q) == NoTag(q.sourceLang) \/ NoTag(q.targetLang)

\* line 46: the request is rejected for a missing field
ConvertInvalid(q) ==
  NoTag(q.sourceLang) \/ NoTag(q.targetLang) \/ NoText(q.inputCode)

\* the 200 answer with the analysis read back from the saved row
ConvertResponseFromSaved(q, l) ==
  [NoResponse EXCEPT !.outputCode = Field(l.result, ConvertOutputField),
                     !.analysis = IF l.savedId = 0 THEN <<>>
                                  ELSE l.row.analysisSummary,
                     !.id = l.savedId,
                     !.useAI = q.useAI,
                     !.qualityMetrics = l.metrics]

\* lines 90-96: the body of the 200 answer
ConvertResponse(q, l) ==
  [NoResponse EXCEPT !.outputCode = Field(l.result, ConvertOutputField),
                     !.analysis = l.analysis,
                     !.id = l.savedId,
                     !.useAI = q.useAI,
                     !.qualityMetrics = l.metrics]

\* lines 61-88: from the conversion result to the call of saveHistory
ConvertAfterResult(q, path, call, fault) ==
  IF call.threw
  THEN Outcome(<<ErrorResponse(500, call.message)>>, "done", NoLocal)
  ELSE
    LET result == call.value
        failed == ~result.success
        first  == IF failed THEN <<ErrorResponse(500, Field(result, "error"))>>
                  ELSE <<>>
        out    == Field(result, ConvertOutputField)
        raised == IF fault THEN "InternalError"
                  ELSE AnalyzerError(out, q.targetLang)
    IN
    IF failed /\ ReturnsAfterFailure THEN Outcome(first, "done", NoLocal)
    ELSE IF raised # ""
    THEN Calling(<<"codeAnalyzer.analyzeSyntax">>,
                 Outcome(first \o <<ErrorResponse(500, raised)>>, "done", NoLocal))
    ELSE
      LET syntaxAnalysis == analyzeSyntax(AsText(out), q.targetLang)
          qualityMetrics == generateQualityMetrics(AsText(out), q.targetLang)
          combinedAnalysis ==
            Field(result, "analysis") \o QualityLines(qualityMetrics)
              \o FindingLines("warning", syntaxAnalysis.warnings)
              \o FindingLines("suggestion", syntaxAnalysis.suggestions)
      IN Calling(<<"codeAnalyzer.analyzeSyntax",
                   "codeAnalyzer.generateQualityMetrics", "saveHistory">>,
           Outcome(first, saveHistoryNext,
                 [NoLocal EXCEPT !.path = path,
                                 !.result = result,
                                 !.analysis = combinedAnalysis,
                                 !.metrics = qualityMetrics,
                                 !.row = HistoryRow(q, out, combinedAnalysis)]))

\* lines 44-59: validation, then the call of the chosen conversion
PostConvert(r, q) ==
  /\ pc[r] = "idle"
  /\ q.route = "convert"
  /\ IF ConvertInvalid(q)
     THEN Finish(r, q, Outcome(<<ErrorResponse(400, RequiredMessage("convert"))>>,
                               "done", NoLocal))
     ELSE Finish(r, q,
            Calling(<<IF UseGemini(q.useAI) THEN "geminiService.convertCodeWithAI"
                      ELSE "codeTransformer.convertCode">>,
                    Outcome(<<>>, "awaitResult",
                      [NoLocal EXCEPT !.path = IF UseGemini(q.useAI) THEN "gemini"
                                               ELSE "rule"])))
  /\ UNCHANGED <<geminiService, supabaseConfigured, nonText, engineFaults, history>>

\* the await of line 55 / 58 completes
ConvertResume(r) ==
  /\ pc[r] = "awaitResult"
  /\ req[r].route = "convert"
  /\ \E outcome \in GeminiOutcomes, fault \in Faults, fault2 \in Faults :
       LET q == req[r]
           call == IF local[ResultSlot(r)].path = "gemini"
                   THEN convertCodeWithAI(geminiService, outcome,
                                          q.sourceLang, q.targetLang)
                   ELSE IF fault THEN Threw("InternalError")
                   ELSE Returned(convertCode(q.inputCode, q.sourceLang, q.targetLang))
       IN Finish(r, q, ConvertAfterResult(q, local[ResultSlot(r)].path, call, fault2))
  /\ UNCHANGED <<geminiService, supabaseConfigured, nonText, engineFaults, history>>

\* a failed insert tried again
InsertAgainOnFailure(insertOk) == IF insertOk THEN "awaitSave" ELSE "awaitInsert"

\* lines 30-38: saveHistory returns after the one insert, with the row or,
\* the error caught, with null
AfterInsert(insertOk) == "awaitSave"

\* saveHistory, lines 22-39: the insert completes, or fails and is swallowed
InsertRow(r) ==
  /\ pc[r] = "awaitInsert"
  /\ \E insertOk \in BOOLEAN :
       LET l == local[ResultSlot(r)]
           saved == saveHistory(history, l.row, insertOk)
       IN /\ history' = saved.table
          /\ local' = [local EXCEPT ![ResultSlot(r)] =
                         [l EXCEPT !.savedId = saved.id]]
          /\ pc' = [pc EXCEPT ![r] = AfterInsert(insertOk)]
  /\ calls' = [calls EXCEPT ![r] = Append(calls[r], "supabase.insert")]
  /\ UNCHANGED <<geminiService, supabaseConfigured, nonText, engineFaults, req, sent>>
  /\ UNCHANGED clientVars

\* lines 90-96: res.json once saveHistory has returned
ConvertRespond(r) ==
  /\ pc[r] = "awaitSave"
  /\ req[r].route = "convert"
  /\ Finish(r, req[r],
            Outcome(<<ConvertResponse(req[r], local[ResultSlot(r)])>>,
                    "done", NoLocal))
  /\ UNCHANGED <<geminiService, supabaseConfigured, nonText, engineFaults, history>>

(***************************************************************************)
(* POST /fix (lines 105-176).                                              *)
(***************************************************************************)
\* the rule-based result with the errors counted on the fixed code instead
\* of the input
FixRuleResultCountsAfter(inputCode, language) ==
  LET fixResult == fixSyntaxErrors(inputCode, language)
      syntaxAnalysis == analyzeSyntax(fixResult.code, language)
  IN [code     |-> fixResult.code,
      success  |-> TRUE,
      error    |-> "null",
      analysis |-> << Line("Syntax analysis completed", 0, "", ""),
                      Line("Found errors", Len(syntaxAnalysis.errors), "", ""),
                      Line("Found warnings", Len(syntaxAnalysis.warnings), "", "") >>
                   \o FindingLines("fix", fixResult.fixes)
                   \o FindingLines("warning", syntaxAnalysis.warnings)
                   \o FindingLines("suggestion", syntaxAnalysis.suggestions)]

\* the rule-based result with the warnings listed under the fixes' prefix
FixRuleResultWarningsAsFixes(inputCode, language) ==
  LET syntaxAnalysis == analyzeSyntax(inputCode, language)
      fixResult == fixSyntaxErrors(inputCode, language)
  IN [code     |-> fixResult.code,
      success  |-> TRUE,
      error    |-> "null",
      analysis |-> << Line("Syntax analysis completed", 0, "", ""),
                      Line("Found errors", Len(syntaxAnalysis.errors), "", ""),
                      Line("Found warnings", Len(syntaxAnalysis.warnings), "", "") >>
                   \o FindingLines("fix", fixResult.fixes)
                   \o FindingLines("fix", syntaxAnalysis.warnings)
                   \o FindingLines("suggestion", syntaxAnalysis.suggestions)]

\* lines 120-135: the rule-based result
FixRuleResult(inputCode, language) ==
  LET syntaxAnalysis == analyzeSyntax(inputCode, language)
      fixResult == fixSyntaxErrors(inputCode, language)
  IN [code     |-> fixResult.code,
      success  |-> TRUE,
      error    |-> "null",
      analysis |-> << Line("Syntax analysis completed", 0, "", ""),
                      Line("Found errors", Len(syntaxAnalysis.errors), "", ""),
                      Line("Found warnings", Len(syntaxAnalysis.warnings), "", "") >>
                   \o FindingLines("fix", fixResult.fixes)
                   \o FindingLines("warning", syntaxAnalysis.warnings)
                   \o FindingLines("suggestion", syntaxAnalysis.suggestions)]

\* the test of line 108 without its inputCode operand
LanguageInvalidTagOnly(q) == NoTag(q.language)

\* lines 108, 182, 223, 249: the request is rejected for a missing field
LanguageInvalid(q) == NoTag(q.language) \/ NoText(q.inputCode)

\* lines 164-170: the body of the 200 answer
FixResponse(q, l) ==
  [NoResponse EXCEPT !.outputCode = Field(l.result, "code"),
                     !.analysis = l.analysis,
                     !.id = l.savedId,
                     !.useAI = q.useAI,
                     !.qualityMetrics = l.metrics]

\* lines 138-162: from the fix result to the call of saveHistory
FixAfterResult(q, path, call, fault) ==
  IF call.threw
  THEN Outcome(<<ErrorResponse(500, call.message)>>, "done", NoLocal)
  ELSE
    LET result == call.value
        failed == ~result.success
        first  == IF failed THEN <<ErrorResponse(500, Field(result, "error"))>>
                  ELSE <<>>
        out    == Field(result, "code")
        raised == IF fault THEN "InternalError"
                  ELSE AnalyzerError(out, q.language)
    IN
    IF failed /\ ReturnsAfterFailure THEN Outcome(first, "done", NoLocal)
    ELSE IF raised # ""
    THEN Calling(<<"codeAnalyzer.generateQualityMetrics">>,
                 Outcome(first \o <<ErrorResponse(500, raised)>>, "done", NoLocal))
    ELSE
      LET qualityMetrics == generateQualityMetrics(AsText(out), q.language)
          combinedAnalysis ==
            Field(result, "analysis") \o QualityLines(qualityMetrics)
      IN Calling(<<"codeAnalyzer.generateQualityMetrics", "saveHistory">>,
           Outcome(first, saveHistoryNext,
                 [NoLocal EXCEPT !.path = path,
                                 !.result = result,
                                 !.analysis = combinedAnalysis,
                                 !.metrics = qualityMetrics,
                                 !.row = HistoryRow(q, out, combinedAnalysis)]))

\* lines 106-136: validation; the rule-based fix runs at once, the Gemini
\* one is awaited
PostFix(r, q) ==
  /\ pc[r] = "idle"
  /\ q.route = "fix"
  /\ IF LanguageInvalid(q)
     THEN Finish(r, q, Outcome(<<ErrorResponse(400, RequiredMessage("fix"))>>,
                               "done", NoLocal))
     ELSE IF UseGemini(q.useAI)
     THEN Finish(r, q, Calling(<<"geminiService.fixCodeWithAI">>,
                               Outcome(<<>>, "awaitResult",
                                       [NoLocal EXCEPT !.path = "gemini"])))
     ELSE \E fault \in Faults, fault2 \in Faults :
            LET raised == IF fault THEN "InternalError"
                          ELSE AnalyzerError(q.inputCode, q.language)
                call == IF raised # "" THEN Threw(raised)
                        ELSE Returned(FixRuleResult(q.inputCode, q.language))
                made == IF raised # "" THEN <<"codeAnalyzer.analyzeSyntax">>
                        ELSE <<"codeAnalyzer.analyzeSyntax",
                               "codeAnalyzer.fixSyntaxErrors">>
            IN Finish(r, q, Calling(made, FixAfterResult(q, "rule", call, fault2)))
  /\ UNCHANGED <<geminiService, supabaseConfigured, nonText, engineFaults, history>>

\* the await of line 117 completes
FixResume(r) ==
  /\ pc[r] = "awaitResult"
  /\ req[r].route = "fix"
  /\ \E outcome \in GeminiOutcomes, fault \in Faults :
       Finish(r, req[r],
              FixAfterResult(req[r], "gemini",
                             fixCodeWithAI(geminiService, outcome, req[r].language),
                             fault))
  /\ UNCHANGED <<geminiService, supabaseConfigured, nonText, engineFaults, history>>

\* lines 164-170
FixRespond(r) ==
  /\ pc[r] = "awaitSave"
  /\ req[r].route = "fix"
  /\ Finish(r, req[r],
            Outcome(<<FixResponse(req[r], local[ResultSlot(r)])>>,
                    "done", NoLocal))
  /\ UNCHANGED <<geminiService, supabaseConfigured, nonText, engineFaults, history>>


(***************************************************************************)
(* POST /analyze (lines 179-217).                                          *)
(***************************************************************************)
\* lines 195-208: the rule-based report
AnalyzeRuleReport(inputCode, language) ==
  LET syntaxAnalysis == analyzeSyntax(inputCode, language)
      qualityMetrics == generateQualityMetrics(inputCode, language)
  IN << Line("Code Analysis Report", 0, "", ""),
        Line("Lines of code", qualityMetrics.linesOfCode, "", ""),
        Line("Functions", qualityMetrics.functions, "", ""),
        Line("Classes", qualityMetrics.classes, "", ""),
        Line("Complexity", qualityMetrics.complexity, "", ""),
        Line("Readability", 0, qualityMetrics.readability, "") >>
     \o FindingLines("Error", syntaxAnalysis.errors)
     \o FindingLines("Warning", syntaxAnalysis.warnings)
     \o FindingLines("Suggestion", syntaxAnalysis.suggestions)

PostAnalyze(r, q) ==
  /\ pc[r] = "idle"
  /\ q.route = "analyze"
  /\ IF LanguageInvalid(q)
     THEN Finish(r, q, Outcome(<<ErrorResponse(400, RequiredMessage("analyze"))>>,
                               "done", NoLocal))
     ELSE IF UseGemini(q.useAI)
     THEN Finish(r, q, Calling(<<"geminiService.analyzeCodeQuality">>,
                               Outcome(<<>>, "awaitResult",
                                       [NoLocal EXCEPT !.path = "gemini"])))
     ELSE \E fault \in Faults :
            LET raised == IF fault THEN "InternalError"
                          ELSE AnalyzerError(q.inputCode, q.language)
                made == IF raised # "" THEN <<"codeAnalyzer.analyzeSyntax">>
                        ELSE <<"codeAnalyzer.analyzeSyntax",
                               "codeAnalyzer.generateQualityMetrics">>
            IN Finish(r, q, Calling(made,
                 Outcome(<<IF raised # "" THEN ErrorResponse(500, raised)
                           ELSE [NoResponse EXCEPT !.analysis =
                                   AnalyzeRuleReport(q.inputCode, q.language)]>>,
                         "done", NoLocal)))
  /\ UNCHANGED <<geminiService, supabaseConfigured, nonText, engineFaults, history>>

\* the answer of a route that only relays a Gemini text (lines 191-192 and
\* 211, 231-237, 257-263): the text under the response key of the route,
\* whether or not the call succeeded
RelayResponse(call) ==
  IF call.threw THEN ErrorResponse(500, call.message)
  ELSE IF call.value.field = "analysis"
       THEN [NoResponse EXCEPT !.analysis = <<TextLine(call.value.text)>>]
       ELSE IF call.value.field = "explanation"
       THEN [NoResponse EXCEPT !.explanation = call.value.text]
       ELSE [NoResponse EXCEPT !.suggestions = call.value.text]

\* the await of line 191 completes
AnalyzeResume(r) ==
  /\ pc[r] = "awaitResult"
  /\ req[r].route = "analyze"
  /\ \E outcome \in GeminiOutcomes :
       Finish(r, req[r],
              Outcome(<<RelayResponse(analyzeCodeQuality(geminiService, outcome))>>,
                      "done", NoLocal))
  /\ UNCHANGED <<geminiService, supabaseConfigured, nonText, engineFaults, history>>

(***************************************************************************)
(* POST /explain (lines 220-243) and POST /suggest (lines 246-269).        *)
(***************************************************************************)
ExplanationNotAvailable ==
  <<"AI explanation not available. Please configure Gemini API key.">>
SuggestionsNotAvailable ==
  <<"AI suggestions not available. Please configure Gemini API key.">>

PostExplain(r, q) ==
  /\ pc[r] = "idle"
  /\ q.route = "explain"
  /\ IF LanguageInvalid(q)
     THEN Finish(r, q, Outcome(<<ErrorResponse(400, RequiredMessage("explain"))>>,
                               "done", NoLocal))
     ELSE IF UseGemini(q.useAI)
     THEN Finish(r, q, Calling(<<"geminiService.generateCodeExplanation">>,
                               Outcome(<<>>, "awaitResult",
                                       [NoLocal EXCEPT !.path = "gemini"])))
     ELSE Finish(r, q,
            Outcome(<<[NoResponse EXCEPT !.explanation = ExplanationNotAvailable]>>,
                    "done", NoLocal))
  /\ UNCHANGED <<geminiService, supabaseConfigured, nonText, engineFaults, history>>

ExplainResume(r) ==
  /\ pc[r] = "awaitResult"
  /\ req[r].route = "explain"
  /\ \E outcome \in GeminiOutcomes :
       Finish(r, req[r],
              Outcome(<<RelayResponse(generateCodeExplanation(geminiService, outcome))>>,
                      "done", NoLocal))
  /\ UNCHANGED <<geminiService, supabaseConfigured, nonText, engineFaults, history>>

PostSuggest(r, q) ==
  /\ pc[r] = "idle"
  /\ q.route = "suggest"
  /\ IF LanguageInvalid(q)
     THEN Finish(r, q, Outcome(<<ErrorResponse(400, RequiredMessage("suggest"))>>,
                               "done", NoLocal))
     ELSE IF UseGemini(q.useAI)
     THEN Finish(r, q, Calling(<<"geminiService.suggestImprovements">>,
                               Outcome(<<>>, "awaitResult",
                                       [NoLocal EXCEPT !.path = "gemini"])))
     ELSE Finish(r, q,
            Outcome(<<[NoResponse EXCEPT !.suggestions = SuggestionsNotAvailable]>>,
                    "done", NoLocal))
  /\ UNCHANGED <<geminiService, supabaseConfigured, nonText, engineFaults, history>>

SuggestResume(r) ==
  /\ pc[r] = "awaitResult"
  /\ req[r].route = "suggest"
  /\ \E outcome \in GeminiOutcomes :
       Finish(r, req[r],
              Outcome(<<RelayResponse(suggestImprovements(geminiService, outcome))>>,
                      "done", NoLocal))
  /\ UNCHANGED <<geminiService, supabaseConfigured, nonText, engineFaults, history>>

(***************************************************************************)
(* The requests drawn.                                                     *)
(***************************************************************************)
\* tags a request may carry: missing, two supported, one unsupported
Tags == {"", "Python", "JavaScript", "Rust"}

InputCodes == { <<>>, <<"print", "(", "'">>, <<"def", ":", "\n", "return">> }

Bodies ==
  { ConvertBody(s, t, c, ai) :
      s \in Tags, t \in Tags, c \in InputCodes, ai \in BOOLEAN }
  \cup
  { LanguageBody(rt, l, c, ai) :
      rt \in {"fix", "analyze", "explain", "suggest"},
      l \in Tags, c \in InputCodes, ai \in BOOLEAN }

\* the requests of the concurrent runs: valid ones, by each path
ConcurrentBodies ==
  { ConvertBody("Python", "JavaScript", c, ai) :
      c \in InputCodes \ {<<>>}, ai \in BOOLEAN }
  \cup
  { LanguageBody("fix", "JavaScript", c, ai) :
      c \in InputCodes \ {<<>>}, ai \in BOOLEAN }
  \cup
  { LanguageBody("analyze", "JavaScript", <<"print", "(", "'">>, ai) :
      ai \in BOOLEAN }

(***************************************************************************)
(* Specifications.                                                         *)
(***************************************************************************)
InitServer(faults) ==
  /\ geminiService \in {NewGeminiService(k) : k \in BOOLEAN}
  /\ supabaseConfigured \in BOOLEAN
  /\ nonText \in {"throws", "empty"}
  /\ engineFaults = faults
  /\ history = <<>>
  /\ req = [r \in Requests |-> NoBody]
  /\ pc = [r \in Requests |-> "idle"]
  /\ local = [r \in Requests |-> NoLocal]
  /\ sent = [r \in Requests |-> <<>>]
  /\ calls = [r \in Requests |-> <<>>]
  /\ page = InitialPage
  /\ inFlight = {}
  /\ started = 0
  /\ finished = <<>>

Post(r, q) ==
  \/ PostConvert(r, q)
  \/ PostFix(r, q)
  \/ PostAnalyze(r, q)
  \/ PostExplain(r, q)
  \/ PostSuggest(r, q)

Continue(r) ==
  \/ ConvertResume(r)
  \/ InsertRow(r)
  \/ ConvertRespond(r)
  \/ FixResume(r)
  \/ FixRespond(r)
  \/ AnalyzeResume(r)
  \/ ExplainResume(r)
  \/ SuggestResume(r)

\* One request, any body; the engine keeps its contract (it never raises
\* on a text and a supported tag).
Init == InitServer(FALSE)
Next == (\E q \in Bodies : Post(1, q)) \/ Continue(1)
Spec == Init /\ [][Next]_vars

\* One request, any body; a transformer or analyzer call may raise.
InitFaults == InitServer(TRUE)
SpecFaults == InitFaults /\ [][Next]_vars

\* NReq requests handled concurrently, interleaved at their awaits.
NextConcurrent ==
  \E r \in Requests :
    \/ \E q \in ConcurrentBodies :
         PostConvert(r, q) \/ PostFix(r, q) \/ PostAnalyze(r, q)
    \/ ConvertResume(r)
    \/ InsertRow(r)
    \/ ConvertRespond(r)
    \/ FixResume(r)
    \/ FixRespond(r)
    \/ AnalyzeResume(r)
SpecConcurrent == Init /\ [][NextConcurrent]_vars


(***************************************************************************)
(* The fix engine through the rule-based /fix route: a text and a tag are  *)
(* drawn, posted, and the code that comes back is posted again.            *)
(***************************************************************************)
FixAlphabet == {"(", ")", "[", "]", "'", ";", ":", "\n", "x"}

Texts(n) == UNION { [1..k -> FixAlphabet] : k \in 0..n }

\* an indentation language, a terminator language, one that is neither
FixTags == {"Python", "Java", "Go"}

FixBodies ==
  { LanguageBody("fix", l, c, FALSE) : l \in FixTags, c \in Texts(MaxCodeLen) }

InitFix ==
  /\ InitServer(FALSE)
  /\ ~isConfigured(geminiService)
  /\ ~supabaseConfigured
  /\ nonText = "throws"

\* the client posts the code it got back
Resubmit ==
  /\ pc[1] = "done"
  /\ sent[1][1].status = 200
  /\ PostFix(2, LanguageBody("fix", req[1].language, sent[1][1].outputCode, FALSE))

NextFix ==
  \/ \E q \in FixBodies : PostFix(1, q)
  \/ Resubmit
  \/ \E r \in {1, 2} : FixRespond(r)
SpecFix == InitFix /\ [][NextFix]_vars


(***************************************************************************)
(* Properties.                                                             *)
(***************************************************************************)
Done(r) == pc[r] = "done"
\* the (first) response request r got
Answer(r) == sent[r][1]

IsConvert(r) == req[r].route = "convert"
ValidConvert(q) ==
  /\ ~NoText(q.inputCode)
  /\ q.sourceLang \in Languages
  /\ q.targetLang \in Languages

LinesTagged(lines, tag) == SelectSeq(lines, LAMBDA l : l.tag = tag)

RECURSIVE IsSubSeq(_, _)
IsSubSeq(a, b) ==
  IF a = <<>> THEN TRUE
  ELSE IF b = <<>> THEN FALSE
  ELSE IF Head(a) = Head(b) THEN IsSubSeq(Tail(a), Tail(b))
  ELSE IsSubSeq(a, Tail(b))

\* C1 as stated: a convert request with a non-empty text and two supported
\* tags never ends in an error response, whichever path is taken.
C1_ValidConvertNeverFails ==
  \A r \in Requests :
    (Done(r) /\ IsConvert(r) /\ ValidConvert(req[r])) => Answer(r).status = 200

\* C1 as amended: on the rule-based path (useAI unset or Gemini not
\* configured) a convert request with a non-empty text and two supported tags
\* always ends in a 200 answer, and an error answer on that path means the
\* text was empty or a tag was missing or unsupported.
C1_RulePathFailsOnlyOnInvalid ==
  \A r \in Requests :
    (Done(r) /\ IsConvert(r) /\ ~(req[r].useAI /\ isConfigured(geminiService)))
      => (Answer(r).status = 200 <=> ValidConvert(req[r]))

C1_Witness ==
  \E r \in Requests :
    /\ Done(r) /\ IsConvert(r) /\ ValidConvert(req[r])
    /\ req[r].useAI /\ ~isConfigured(geminiService)
    /\ Answer(r).status = 200
    /\ Answer(r).outputCode = <<"console.log", "(", "'">>

\* C2: a convert request whose source text is empty is answered 400 with
\* the "required" error and carries no output code.
C2_EmptyInputRejected ==
  \A r \in Requests :
    (Done(r) /\ IsConvert(r) /\ req[r].inputCode = <<>>)
      => /\ Len(sent[r]) = 1
         /\ Answer(r).status = 400
         /\ Answer(r).error = "sourceLang, targetLang, inputCode required"
         /\ Answer(r).outputCode = Undefined

C2_Witness ==
  \E r \in Requests :
    /\ Done(r) /\ IsConvert(r) /\ req[r].inputCode = <<>>
    /\ req[r].sourceLang = "Python" /\ req[r].targetLang = "JavaScript"
    /\ req[r].useAI /\ isConfigured(geminiService)
    /\ Answer(r).status = 400

HasUnsupportedTag(q) ==
  IF q.route = "convert"
  THEN q.sourceLang \notin Languages \/ q.targetLang \notin Languages
  ELSE q.language \notin Languages

\* C3 as stated: a convert, analyze or fix request that carries a tag
\* outside the six supported languages is never answered 200.
C3_UnsupportedTagNeverSucceeds ==
  \A r \in Requests :
    (Done(r) /\ req[r].route \in {"convert", "analyze", "fix"}
       /\ HasUnsupportedTag(req[r]))
      => Answer(r).status # 200

\* the code the conversion that ran handed back
ProducedCode(l) ==
  IF l.path = "gemini" THEN Field(l.result, "code")
  ELSE Field(l.result, "outputCode")

\* C4 as stated: every response /convert writes is either a 200 whose
\* outputCode is a text, the one the conversion that ran produced, or an
\* error response with a reason.
C4_SuccessCarriesProducedCode ==
  [][\A r \in Requests :
       (req'[r].route = "convert" /\ Len(sent'[r]) > Len(sent[r]))
         => LET a == sent'[r][Len(sent'[r])] IN
            IF a.status = 200
            THEN /\ a.outputCode # Undefined
                 /\ a.outputCode = ProducedCode(local[ResultSlot(r)])
            ELSE a.error # "undefined"]_vars

CanContinue(r) ==
  \/ pc[r] = "awaitResult"
       /\ req[r].route \in {"convert", "fix", "analyze", "explain", "suggest"}
  \/ pc[r] = "awaitInsert"
  \/ pc[r] = "awaitSave" /\ req[r].route \in {"convert", "fix"}

\* C6: a handler writes at most one response, a finished handler has
\* written exactly one (400, 500 with a message, or 200), and a handler that
\* is waiting can always go on.
C6_ExactlyOneResponse ==
  \A r \in Requests :
    /\ Len(sent[r]) <= 1
    /\ Done(r) =>
         /\ Len(sent[r]) = 1
         /\ Answer(r).status \in {200, 400, 500}
         /\ Answer(r).status # 200 => Answer(r).error # "undefined"
    /\ pc[r] \notin {"idle", "done"} => (sent[r] = <<>> /\ CanContinue(r))

C6_Witness ==
  \E r \in Requests :
    /\ Done(r) /\ req[r].route = "fix"
    /\ Len(sent[r]) = 1
    /\ Answer(r).status = 500
    /\ Answer(r).error = "InternalError"

\* the fields of a response that C7 speaks of
View(a) ==
  [status |-> a.status, outputCode |-> a.outputCode, analysis |-> a.analysis,
   qualityMetrics |-> a.qualityMetrics]

\* what the handlers of convert.js answer to q when nothing else runs, for
\* one outcome of the Gemini call
AnswerAlone(q, outcome) ==
  LET path == IF UseGemini(q.useAI) THEN "gemini" ELSE "rule" IN
  IF q.route = "convert"
  THEN LET call == IF path = "gemini"
                   THEN convertCodeWithAI(geminiService, outcome,
                                          q.sourceLang, q.targetLang)
                   ELSE Returned(convertCode(q.inputCode, q.sourceLang, q.targetLang))
           out == ConvertAfterResult(q, path, call, FALSE)
       IN IF out.next = "done" THEN out.sends[1] ELSE ConvertResponse(q, out.keep)
  ELSE IF q.route = "fix"
  THEN LET call == IF path = "gemini"
                   THEN fixCodeWithAI(geminiService, outcome, q.language)
                   ELSE Returned(FixRuleResult(q.inputCode, q.language))
           out == FixAfterResult(q, path, call, FALSE)
       IN IF out.next = "done" THEN out.sends[1] ELSE FixResponse(q, out.keep)
  ELSE IF path = "gemini"
       THEN RelayResponse(analyzeCodeQuality(geminiService, outcome))
       ELSE [NoResponse EXCEPT !.analysis =
               AnalyzeRuleReport(q.inputCode, q.language)]

\* C7: under every interleaving, the status, outputCode, analysis and
\* qualityMetrics a request gets are those it gets when run alone.
C7_NoCrossRequestState ==
  \A r \in Requests :
    Done(r) =>
      /\ Len(sent[r]) = 1
      /\ \E outcome \in GeminiOutcomes :
           View(Answer(r)) = View(AnswerAlone(req[r], outcome))

\* request 2 was posted and saved its row while request 1 was in flight,
\* and request 1 has answered while request 2 still waits
C7_Witness ==
  /\ Done(1) /\ pc[2] = "awaitSave"
  /\ req[1].route = "convert" /\ req[2].route = "fix"
  /\ req[1].inputCode # req[2].inputCode
  /\ Answer(1).status = 200
  /\ Len(history) = 2
  /\ history[1].row.inputCode = req[2].inputCode
  /\ Answer(1).id = 2

BalanceKinds == {"UnmatchedCloser", "UnmatchedOpener"}

\* C8 as stated: the code a rule-based /fix returns has no brace, paren or
\* bracket balance error under a fresh analyzeSyntax.
C8_BalancedAfterFix ==
  \A r \in Requests :
    (Done(r) /\ req[r].route = "fix" /\ Answer(r).status = 200)
      => LET errs == analyzeSyntax(Answer(r).outputCode, req[r].language).errors
         IN \A k \in 1..Len(errs) : errs[k].kind \notin BalanceKinds

C10_FixesAreErrorFindings ==
  \A r \in Requests :
    (Done(r) /\ req[r].route = "fix" /\ Answer(r).status = 200)
      => LET a == Answer(r)
             errs == analyzeSyntax(req[r].inputCode, req[r].language).errors
             fixes == LinesTagged(a.analysis, "fix")
             found == LinesTagged(a.analysis, "Found errors")[1].n
         IN /\ found = Len(errs)
            /\ Len(fixes) <= found
            /\ IsSubSeq(fixes, FindingLines("fix", errs))
            /\ Len(a.outputCode) = Len(req[r].inputCode) + Len(fixes)
            /\ found = 0 => (fixes = <<>> /\ a.outputCode = req[r].inputCode)

\* a Python text with two errors, one of them without a template, and a
\* warning
C10_Witness ==
  \E r \in Requests :
    /\ Done(r) /\ req[r].route = "fix" /\ Answer(r).status = 200
    /\ req[r].inputCode = <<")", "(", ":">>
    /\ req[r].language = "Python"
    /\ Len(LinesTagged(Answer(r).analysis, "fix")) = 1
    /\ Len(LinesTagged(Answer(r).analysis, "warning")) = 1
    /\ Answer(r).outputCode = <<")", "(", ":", ")">>

(***************************************************************************)
(* Invalid top-level input.                                                *)
(***************************************************************************)
\* a field the route requires is missing or empty in the body
MissingField(q) ==
  IF q.route = "convert"
  THEN q.sourceLang = "" \/ q.targetLang = "" \/ q.inputCode = <<>>
  ELSE q.language = "" \/ q.inputCode = <<>>

\* C11: a request whose body lacks a required field is answered 400 with
\* the route's message at once: it never waits, it made no call to the
\* transformer, the analyzer, GeminiService or the history store, and the
\* history table is as it was.
C11_InvalidInputFailsWithoutEffect ==
  \A r \in Requests :
    (pc[r] # "idle" /\ MissingField(req[r]))
      => /\ Done(r)
         /\ sent[r] = <<ErrorResponse(400, RequiredMessage(req[r].route))>>
         /\ calls[r] = <<>>
         /\ local[r] = NoLocal
         /\ history = <<>>

\* a /fix with a language and an empty inputCode, asked with useAI while
\* Gemini and Supabase are configured, was answered 400
C11_Witness ==
  /\ Done(1) /\ req[1].route = "fix"
  /\ req[1].language = "Python" /\ req[1].inputCode = <<>> /\ req[1].useAI
  /\ isConfigured(geminiService) /\ supabaseConfigured
  /\ Answer(1).status = 400 /\ calls[1] = <<>>

(***************************************************************************)
(* The history record of a request.                                        *)
(***************************************************************************)
\* how often a handler has made the call named
CountCall(name, made) == Cardinality({k \in 1..Len(made) : made[k] = name})

GeminiCalls ==
  {"geminiService.convertCodeWithAI", "geminiService.fixCodeWithAI",
   "geminiService.analyzeCodeQuality", "geminiService.generateCodeExplanation",
   "geminiService.suggestImprovements"}

CountGeminiCalls(made) ==
  Cardinality({k \in 1..Len(made) : made[k] \in GeminiCalls})

SavesHistory(q) == q.route \in {"convert", "fix"}

\* C12: in every step of a /convert or /fix handler: an insert is the
\* request's first and only one, is made for a result with success = true
\* and before any response is written, and adds at most one row; a handler
\* calls GeminiService at most once; no call is made once a response is
\* written; a 400 or 500 is written by a handler that made no insert; a
\* 200 is written after saveHistory was called and, with Supabase
\* configured, after the one insert has completed.
C12_InsertOnceAfterSuccessBeforeAnswer ==
  [][\A r \in Requests :
       LET inserts  == CountCall("supabase.insert", calls[r])
           inserts2 == CountCall("supabase.insert", calls'[r])
           answers  == Len(sent'[r]) > Len(sent[r])
           answer   == sent'[r][Len(sent'[r])]
       IN /\ calls'[r] # calls[r] => sent[r] = <<>>
          /\ CountGeminiCalls(calls'[r]) <= 1
          /\ inserts2 <= 1
          /\ inserts2 > inserts
               => /\ SavesHistory(req[r])
                  /\ local[r].result.success
                  /\ sent'[r] = <<>>
                  /\ CountCall("saveHistory", calls[r]) = 1
          /\ history' # history
               => /\ Len(history') = Len(history) + 1
                  /\ \E w \in Requests :
                       /\ CountCall("supabase.insert", calls'[w])
                            > CountCall("supabase.insert", calls[w])
                       /\ history'[Len(history')].row = local[w].row
          /\ (answers /\ answer.status # 200)
               => /\ inserts2 = 0
                  /\ history' = history
          /\ (answers /\ answer.status = 200 /\ SavesHistory(req'[r]))
               => /\ CountCall("saveHistory", calls[r]) = 1
                  /\ inserts = (IF supabaseConfigured THEN 1 ELSE 0)
                  /\ history' = history
                  /\ answer.id # 0 => \E k \in 1..Len(history) :
                                         history[k].id = answer.id
     ]_vars

\* a /convert by Gemini whose insert failed has answered 200 without an id
\* after one Gemini call and one insert
C12_Witness ==
  /\ Done(1) /\ req[1].route = "convert" /\ req[1].useAI
  /\ calls[1] = <<"geminiService.convertCodeWithAI",
                  "codeAnalyzer.analyzeSyntax",
                  "codeAnalyzer.generateQualityMetrics",
                  "saveHistory", "supabase.insert">>
  /\ history = <<>>
  /\ Answer(1).status = 200 /\ Answer(1).id = 0

(***************************************************************************)
(* Persistence and the answer.                                             *)
(***************************************************************************)
\* the answer to q when saveHistory returns null, for one outcome of the
\* Gemini call: a function of the body alone
AnswerUnsaved(q, outcome) ==
  IF MissingField(q) THEN ErrorResponse(400, RequiredMessage(q.route))
  ELSE AnswerAlone(q, outcome)

\* C13: the status, outputCode, analysis and qualityMetrics of a /convert
\* or /fix answer are those the request gets when nothing is saved,
\* whether Supabase is configured or not and whether the insert went
\* through or not; the id is present exactly when the request's row was
\* saved, and then names that row, which holds the code answered.
C13_PersistenceNeverAffectsResult ==
  \A r \in Requests :
    (Done(r) /\ SavesHistory(req[r]))
      => LET a == Answer(r) IN
         /\ Len(sent[r]) = 1
         /\ \E outcome \in GeminiOutcomes :
              View(a) = View(AnswerUnsaved(req[r], outcome))
         /\ ~supabaseConfigured => (a.id = 0 /\ history = <<>>)
         /\ a.id = 0 <=> history = <<>>
         /\ a.id # 0 => /\ a.status = 200
                        /\ a.id \in 1..Len(history)
                        /\ history[a.id].id = a.id
                        /\ history[a.id].row.outputCode = a.outputCode
                        /\ history[a.id].row.analysisSummary = a.analysis

\* a rule-based /fix answered 200 with the fixed code and its analysis
\* although the insert it waited for failed
C13_Witness ==
  /\ Done(1) /\ req[1].route = "fix" /\ ~req[1].useAI
  /\ supabaseConfigured
  /\ CountCall("supabase.insert", calls[1]) = 1
  /\ history = <<>>
  /\ Answer(1).status = 200 /\ Answer(1).id = 0
  /\ req[1].inputCode = <<"print", "(", "'">>
  /\ Len(Answer(1).outputCode) > Len(req[1].inputCode)
  /\ Answer(1).analysis # <<>>

(***************************************************************************)
(* GeminiService without a key.                                            *)
(***************************************************************************)
\* the first call a handler makes on the rule-based path of a route
FirstRuleCall(route) ==
  IF route = "convert" THEN "codeTransformer.convertCode"
  ELSE "codeAnalyzer.analyzeSyntax"

\* C14: isConfigured() is true exactly when genAI and model are both set,
\* and they are set together; while the service is not configured no
\* handler calls a GeminiService method and no response carries the
\* message of its guard; a valid request with useAI then takes the
\* rule-based path on /convert, /fix and /analyze and is answered 200
\* with the fixed message on /explain and /suggest.
C14_UnconfiguredGeminiNeverCalled ==
  LET unset == geminiService.genAI = "null" \/ geminiService.model = "null" IN
  /\ isConfigured(geminiService) <=> ~unset
  /\ unset => (geminiService.genAI = "null" /\ geminiService.model = "null")
  /\ \A r \in Requests :
       /\ \A k \in 1..Len(sent[r]) : sent[r][k].error # NotConfiguredMessage
       /\ unset => CountGeminiCalls(calls[r]) = 0
       /\ (unset /\ pc[r] # "idle" /\ ~MissingField(req[r]) /\ req[r].useAI)
            => IF req[r].route \in {"convert", "fix", "analyze"}
               THEN /\ calls[r] # <<>>
                    /\ calls[r][1] = FirstRuleCall(req[r].route)
               ELSE /\ Done(r)
                    /\ calls[r] = <<>>
                    /\ sent[r] =
                         << IF req[r].route = "explain"
                            THEN [NoResponse EXCEPT
                                    !.explanation = ExplanationNotAvailable]
                            ELSE [NoResponse EXCEPT
                                    !.suggestions = SuggestionsNotAvailable] >>

\* an /explain with useAI was answered 200 with the fixed message by a
\* server without a Gemini key
C14_Witness ==
  /\ geminiService.genAI = "null"
  /\ Done(1) /\ req[1].route = "explain" /\ req[1].useAI
  /\ req[1].language = "Python" /\ req[1].inputCode # <<>>
  /\ Answer(1).status = 200
  /\ Answer(1).explanation = ExplanationNotAvailable

(***************************************************************************)
(* The client page (client/pages/index.tsx).  A handleConvert call sets    *)
(* its state, waits for its promise, and sets state again; the updates of  *)
(* one stretch of the handler are rendered before the next event is        *)
(* handled, so a stretch is one step.                                      *)
(***************************************************************************)
\* how many handleConvert calls a run starts
MaxCalls == 2

\* what the awaited promise of a call may do
AwaitOutcomes == {"resolved", "rejected"}

\* the button disabled on an empty source only
ButtonDisabledOnEmptyOnly(p) == p.sourceCode = <<>>

\* line 110: disabled={loading || !sourceCode}
ButtonDisabled(p) == p.loading \/ p.sourceCode = <<>>

\* lines 26-30: the setters handleConvert calls before its await
ConvertStarted(p) ==
  [p EXCEPT !.loading = TRUE, !.convertedCode = "", !.analysis = "",
            !.explanation = "", !.suggestions = ""]

\* lines 34-42: the setters handleConvert calls after its await: those of
\* the try block or the one of the catch block, then the one of finally
\* (the marks that open two of the texts are left out)
ConvertEnded(p, outcome) ==
  IF outcome = "resolved"
  THEN [p EXCEPT !.convertedCode = "// converted code result here...",
                 !.analysis = "No major issues detected in source code.",
                 !.explanation =
                   "This code was successfully translated to the target language.",
                 !.suggestions =
                   "Consider refactoring loops into functions for clarity.",
                 !.loading = FALSE]
  ELSE [p EXCEPT !.convertedCode = "// Error during conversion",
                 !.loading = FALSE]

ClientStep ==
  UNCHANGED <<geminiService, supabaseConfigured, nonText, engineFaults,
              history, req, pc, local, sent, calls>>

\* line 48: the source language is chosen
SetSourceLang(lang) ==
  /\ page' = [page EXCEPT !.sourceLang = lang]
  /\ UNCHANGED <<inFlight, started, finished>>
  /\ ClientStep

\* line 56: the target language is chosen
SetTargetLang(lang) ==
  /\ page' = [page EXCEPT !.targetLang = lang]
  /\ UNCHANGED <<inFlight, started, finished>>
  /\ ClientStep

\* line 83: the source editor changes
SetSourceCode(code) ==
  /\ page' = [page EXCEPT !.sourceCode = code]
  /\ UNCHANGED <<inFlight, started, finished>>
  /\ ClientStep

\* lines 108-110 and 25-33: a click on the enabled button runs handleConvert
\* up to its await
ClickConvert ==
  /\ ~ButtonDisabled(page)
  /\ started < MaxCalls
  /\ started' = started + 1
  /\ inFlight' = inFlight \cup {started + 1}
  /\ page' = ConvertStarted(page)
  /\ UNCHANGED finished
  /\ ClientStep

\* lines 33-43: the promise of call c settles and the call runs to its end
HandleConvertResume(c, outcome) ==
  /\ c \in inFlight
  /\ inFlight' = inFlight \ {c}
  /\ finished' = Append(finished, c)
  /\ page' = ConvertEnded(page, outcome)
  /\ UNCHANGED started
  /\ ClientStep

Settle == \E c \in 1..MaxCalls, outcome \in AwaitOutcomes :
            HandleConvertResume(c, outcome)

InitClient ==
  /\ InitServer(FALSE)
  /\ geminiService = NewGeminiService(FALSE)
  /\ ~supabaseConfigured
  /\ nonText = "throws"

NextClient ==
  \/ \E lang \in languages : SetSourceLang(lang)
  \/ \E lang \in languages : SetTargetLang(lang)
  \/ \E code \in InputCodes : SetSourceCode(code)
  \/ ClickConvert
  \/ Settle

\* the timer of line 33 fires and the event loop runs the rest of the call
SpecClient == InitClient /\ [][NextClient]_vars /\ WF_vars(Settle)

\* what a step of the page does to a conversion
ConversionStep ==
  /\ (started' # started)
       => (~page.loading /\ page.sourceCode # <<>> /\ page'.loading)
  /\ (finished' # finished)
       => (/\ page.loading /\ ~page'.loading
           /\ finished'[Len(finished')] = started
           /\ page'.convertedCode # "")
  /\ (page'.convertedCode # page.convertedCode /\ page.convertedCode # "")
       => (started' # started)

\* C15: loading is true exactly while a handleConvert call waits, and at
\* most one does; a call is started only by a click while loading is
\* false and the source is not empty; a call that ends, resolved or
\* rejected, sets loading to false and is the latest one started, so what
\* it shows is not overwritten by an older call; and every call started
\* ends.
C15_LoadingWhileConverting ==
  /\ [](/\ page.loading <=> inFlight # {}
        /\ Cardinality(inFlight) <= 1
        /\ \A c \in inFlight : c = started
        /\ \A k \in 1..Len(finished) : finished[k] = k)
  /\ [][ConversionStep]_vars
  /\ \A c \in 1..MaxCalls :
       (c \in inFlight) ~> (c \notin inFlight /\ ~page.loading)

\* a second conversion, started after the first had ended, was rejected and
\* has set loading back to false
C15_Witness ==
  /\ started = 2 /\ finished = <<1, 2>> /\ inFlight = {}
  /\ ~page.loading
  /\ page.convertedCode = "// Error during conversion"
  /\ page.analysis = ""

====
